---------------------------- MODULE Spec2Model ----------------------------
(***************************************************************************)
(* A model of ChaProEV's time grid (run_time.py) and of the leg energy     *)
(* model (define.py).                                                      *)
(*                                                                         *)
(* Instants are whole seconds counted from 1 January 00:00 of the first    *)
(* year a run may name (EpochYear).  Python floats are modelled by         *)
(* integers and, where the code divides by two, by a numerator/denominator *)
(* pair.  Python objects are records carrying their type in the field      *)
(* "type"; a raised exception is recorded by its class name.               *)
(***************************************************************************)
EXTENDS Integers, Sequences, FiniteSets, TLC

VARIABLES
    parameters,              \* the parsed parameters file (read-only input)
    time_range,              \* outcome of the last get_time_range call
    time_stamped_dataframe,  \* outcome of the last get_time_stamped_dataframe
    locations,               \* Location objects built so far, by name
    vehicle,                 \* the Vehicle object built, or NoObject
    leg,                     \* the Leg object built, or NoObject
    last_call,               \* arguments and outcome of the last
                             \* electricity_use_kWh invocation
    weather_calls            \* the weather lookups made by that invocation

vars == <<parameters, time_range, time_stamped_dataframe, locations,
          vehicle, leg, last_call, weather_calls>>

time_vars == <<time_range, time_stamped_dataframe>>
leg_vars == <<locations, vehicle, leg, last_call, weather_calls>>

----------------------------------------------------------------------------
(* Bounds of the model *)

\* The longest grid a configuration of the model may produce.
MaxGrid == 12

----------------------------------------------------------------------------
(* Small arithmetic helpers *)

Abs(n) == IF n < 0 THEN -n ELSE n

\* Python's // on integers: the floor of the quotient, for either sign of d.
FloorDiv(n, d) ==
    IF d > 0 THEN n \div d
    ELSE (-n) \div (-d)

\* Python's int(n / d): the quotient truncated towards zero.
IntTrunc(n, d) ==
    IF (n >= 0) = (d > 0)
    THEN Abs(n) \div Abs(d)
    ELSE -(Abs(n) \div Abs(d))

\* numpy.arange(b, e, stride) for a non-zero integer stride.
Arange(b, e, stride) ==
    LET span == e - b
        n == IF (span > 0) = (stride > 0) /\ span # 0
             THEN (Abs(span) + Abs(stride) - 1) \div Abs(stride)
             ELSE 0
    IN [k \in 1..n |-> b + (k - 1) * stride]

----------------------------------------------------------------------------
(* The calendar of datetime.datetime *)

RunYears == {2023, 2024}

EpochYear == CHOOSE y \in RunYears : \A z \in RunYears : y <= z

LastYear == CHOOSE y \in RunYears : \A z \in RunYears : z <= y

IsLeap(y) == (y % 4 = 0 /\ y % 100 # 0) \/ y % 400 = 0

DaysInMonth(y, m) ==
    IF m = 2 THEN (IF IsLeap(y) THEN 29 ELSE 28)
    ELSE IF m \in {4, 6, 9, 11} THEN 30 ELSE 31

DaysInYear(y) == IF IsLeap(y) THEN 366 ELSE 365

RECURSIVE DaysBeforeMonth(_, _)
DaysBeforeMonth(y, m) ==
    IF m <= 1 THEN 0 ELSE DaysBeforeMonth(y, m - 1) + DaysInMonth(y, m - 1)

RECURSIVE DaysBeforeYear(_)
DaysBeforeYear(y) ==
    IF y <= EpochYear THEN 0 ELSE DaysBeforeYear(y - 1) + DaysInYear(y - 1)

SecondsPerDay == 24 * 60 * 60

\* datetime.datetime(year, month, day, hour, minute) accepts the fields.
ValidDateTime(f) ==
    /\ f.month \in 1..12
    /\ f.day \in 1..DaysInMonth(f.year, f.month)
    /\ f.hour \in 0..23
    /\ f.minute \in 0..59

\* The instant datetime.datetime(year, month, day, hour, minute) denotes.
DateTime(f) ==
    (DaysBeforeYear(f.year) + DaysBeforeMonth(f.year, f.month) + f.day - 1)
        * SecondsPerDay
    + f.hour * 60 * 60 + f.minute * 60

\* datetime.datetime(year, 1, 1, 0, 0)
StartOfYear(y) == DaysBeforeYear(y) * SecondsPerDay

\* time_stamp.year
YearOf(t) ==
    CHOOSE y \in EpochYear..LastYear :
        StartOfYear(y) <= t /\ t < StartOfYear(y + 1)

\* time_stamp.hour
HourOf(t) == ((t - StartOfYear(YearOf(t))) % SecondsPerDay) \div (60 * 60)

----------------------------------------------------------------------------
(* pandas frequency strings and date_range *)

\* The fixed-length frequency aliases of the model, in seconds.
FrequencyAliases == {"S", "min", "H", "D"}

AliasSeconds(type) ==
    CASE type = "S" -> 1
      [] type = "min" -> 60
      [] type = "H" -> 60 * 60
      [] type = "D" -> SecondsPerDay

\* pd.date_range(start=, end=, freq=, inclusive='left') for a fixed-length
\* frequency of `stride` seconds (stride # 0): the regular range from start
\* that does not pass end, from which the right end point is dropped when it
\* is end, except that nothing is dropped when start = end.
DateRangeLeft(start, end, stride) ==
    LET e == start + FloorDiv(end - start, stride) * stride
                 + FloorDiv(stride, 2) + 1
        i8values == Arange(start, e, stride)
    IN IF start = end THEN i8values
       ELSE IF Len(i8values) > 0 /\ i8values[Len(i8values)] = end
            THEN SubSeq(i8values, 1, Len(i8values) - 1)
            ELSE i8values


----------------------------------------------------------------------------
(* The parameters file *)

\* parameters['locations'][name], the section being kept in file order.
LocationEntry(p, name) ==
    CHOOSE i \in 1..Len(p.locations) : p.locations[i].name = name

LocationNames(p) == [i \in 1..Len(p.locations) |-> p.locations[i].name]

HasLocation(p, name) == \E i \in 1..Len(p.locations) : p.locations[i].name = name

----------------------------------------------------------------------------
(* run_time.get_time_range *)

NotCalled ==
    [status |-> "not called", error |-> "",
     run_range |-> <<>>, run_hour_numbers |-> <<>>]

Raised(error) ==
    [status |-> "raised", error |-> error,
     run_range |-> <<>>, run_hour_numbers |-> <<>>]

\* Hours counted from the first year of the model instead of from the
\* time stamp's own year.
HourNumberNoYearReset(time_stamp, SECONDS_PER_HOUR, first_hour_number) ==
    first_hour_number
    + IntTrunc(time_stamp - StartOfYear(EpochYear), SECONDS_PER_HOUR)

\* first_hour_number + int((time_stamp - datetime(time_stamp.year, 1, 1, 0, 0))
\*                         .total_seconds() / SECONDS_PER_HOUR)
HourNumber(time_stamp, SECONDS_PER_HOUR, first_hour_number) ==
    first_hour_number
    + IntTrunc(time_stamp - StartOfYear(YearOf(time_stamp)), SECONDS_PER_HOUR)

\* The outcome of get_time_range(parameters_file_name), the file holding p.
\* The function checks nothing itself: datetime.datetime raises ValueError
\* for a field out of range, pandas raises ValueError for a frequency string
\* it does not know and divides by the stride of a frequency of size zero;
\* a negative size is a frequency pandas accepts.
get_time_range(p) ==
    LET run == p.run
        frequency == run.frequency
    IN IF ~ValidDateTime(run.start) THEN Raised("ValueError")
       ELSE IF ~ValidDateTime(run.end) THEN Raised("ValueError")
       ELSE IF frequency.type \notin FrequencyAliases THEN Raised("ValueError")
       ELSE IF frequency.size = 0 THEN Raised("ZeroDivisionError")
       ELSE
         LET run_start == DateTime(run.start)
             run_end == DateTime(run.end)
             run_range == DateRangeLeft(run_start, run_end,
                              frequency.size * AliasSeconds(frequency.type))
         IN [status |-> "returned", error |-> "",
             run_range |-> run_range,
             run_hour_numbers |->
                 [i \in 1..Len(run_range) |->
                     HourNumber(run_range[i],
                                p.time.SECONDS_PER_HOUR,
                                p.time.first_hour_number)]]

----------------------------------------------------------------------------
(* run_time.get_time_stamped_dataframe *)

DigitCharacters == <<"0", "1", "2", "3", "4", "5", "6", "7", "8", "9">>

\* str(n) for n >= 0, one character per element.
RECURSIVE Digits(_)
Digits(n) ==
    IF n < 10 THEN <<DigitCharacters[n + 1]>>
    ELSE Digits(n \div 10) \o <<DigitCharacters[(n % 10) + 1]>>

\* Zero padding of the digits alone, the sign not counted in the width.
Format04SignNotCounted(n) ==
    LET digits == Digits(Abs(n))
        sign == IF n < 0 THEN <<"-">> ELSE <<>>
        fill == 4 - Len(digits)
    IN sign \o [k \in 1..fill |-> "0"] \o digits

\* format(n, '04'): zeros between the sign and the digits, up to a total
\* width of 4 characters, the sign included.
Format04(n) ==
    LET digits == Digits(Abs(n))
        sign == IF n < 0 THEN <<"-">> ELSE <<>>
        fill == 4 - Len(sign) - Len(digits)
    IN sign \o [k \in 1..fill |-> "0"] \o digits

\* f't{hour_number:04}'
SpineLabel(hour_number) == <<"t">> \o Format04(hour_number)

NoTable ==
    [status |-> "not called", error |-> "", index |-> <<>>,
     index_name |-> "", columns |-> <<>>, data |-> <<>>]

\* The column of the table named `column`, as built by the three assignments
\* of get_time_stamped_dataframe in their order: a later assignment to a name
\* replaces the column.
ColumnValues(column, run_hour_numbers, location_names) ==
    IF \E k \in 1..Len(location_names) : location_names[k] = column
    THEN [i \in 1..Len(run_hour_numbers) |-> "NaN"]
    ELSE IF column = "SPINE_hour_number"
    THEN [i \in 1..Len(run_hour_numbers) |-> SpineLabel(run_hour_numbers[i])]
    ELSE run_hour_numbers

\* The outcome of get_time_stamped_dataframe(parameters_file_name).
get_time_stamped_dataframe(p) ==
    LET range == get_time_range(p)
        location_names == LocationNames(p)
        columns == <<"Hour Number", "SPINE_hour_number">> \o location_names
    IN IF range.status = "raised"
       THEN [NoTable EXCEPT !.status = "raised", !.error = range.error]
       ELSE [status |-> "returned", error |-> "",
             index |-> range.run_range,
             index_name |-> "Timestamp",
             columns |-> columns,
             data |-> [c \in {columns[k] : k \in 1..Len(columns)} |->
                          ColumnValues(c, range.run_hour_numbers,
                                       location_names)]]


----------------------------------------------------------------------------
(* define.Location, define.Vehicle, define.Leg: the constructors *)

NoObject == [type |-> "NoneType"]

\* No Location object built yet.
NoLocations == [name \in {} |-> NoObject]

\* A Python str
Str(value) == [type |-> "str", value |-> value]

\* Location.__init__(location, name, parameters_file_name)
Location(name, p) ==
    LET location_parameters == p.locations[LocationEntry(p, name)]
    IN [type |-> "Location",
        name |-> name,
        connectivity |-> location_parameters.connectivity,
        charging_power |-> location_parameters.charging_power,
        latitude |-> location_parameters.latitude,
        longitude |-> location_parameters.longitude]

\* Vehicle.__init__(vehicle, name, parameters_file_name)
Vehicle(name, p) ==
    LET vehicle_parameters == p.vehicles[name]
    IN [type |-> "Vehicle",
        name |-> name,
        base_consumption |-> vehicle_parameters.base_consumption,
        battery_capacity |-> vehicle_parameters.battery_capacity,
        solar_panel_size_kWp |-> vehicle_parameters.solar_panel_size_kWp,
        road_factors |->
            [road_type \in DOMAIN vehicle_parameters.road_factors |->
                vehicle_parameters.road_factors[road_type]]]

\* Leg.__init__(leg, name, parameters_file_name): the two location fields
\* receive the values of locations['start'] and locations['end'], which are
\* the names written in the parameters file.
Leg(name, p) ==
    LET leg_parameters == p.legs[name]
    IN [type |-> "Leg",
        name |-> name,
        distance |-> leg_parameters.distance,
        duration |-> leg_parameters.duration,
        hour_in_day_factors |-> leg_parameters.hour_in_day_factors,
        start_location |-> Str(leg_parameters.locations.start),
        end_location |-> Str(leg_parameters.locations.end),
        road_type_mix |->
            [road_type \in DOMAIN leg_parameters.road_type_mix |->
                leg_parameters.road_type_mix[road_type]]]


----------------------------------------------------------------------------
(* define.Leg.electricity_use_kWh *)

TemperatureQuantity == "Temperature at 2 meters (°C)"

\* The error of the weather module when it cannot supply a quantity.
WeatherFailure == "WeatherUnavailableError"

\* A missing entry counted as a zero contribution.
RoadTermDefaultZero(l, v, road_type) ==
    IF road_type \notin DOMAIN l.road_type_mix
       \/ road_type \notin DOMAIN v.road_factors
    THEN [error |-> "", value |-> 0]
    ELSE [error |-> "",
          value |-> l.road_type_mix[road_type] * v.road_factors[road_type]]

\* leg.road_type_mix[road_type]*vehicle.road_factors[road_type]: a dictionary
\* raises KeyError for a key it does not hold.
RoadTerm(l, v, road_type) ==
    IF road_type \notin DOMAIN l.road_type_mix
       \/ road_type \notin DOMAIN v.road_factors
    THEN [error |-> "KeyError", value |-> 0]
    ELSE [error |-> "",
          value |-> l.road_type_mix[road_type] * v.road_factors[road_type]]

RECURSIVE SumValues(_)
SumValues(terms) ==
    IF terms = <<>> THEN 0
    ELSE terms[1].value + SumValues(Tail(terms))

\* sum(... for road_type in road_types)
WeightedRoadFactor(l, v, road_types) ==
    LET terms == [i \in 1..Len(road_types) |-> RoadTerm(l, v, road_types[i])]
    IN IF \E i \in 1..Len(terms) : terms[i].error # ""
       THEN [error |-> "KeyError", value |-> 0]
       ELSE [error |-> "", value |-> SumValues(terms)]

\* weather.get_location_weather_quantity(latitude, longitude, time_stamp,
\*     'Temperature at 2 meters (°C)', 'Temperature at 2 meters (°C)', file):
\* the call as the weather module receives it, with the answer it gives.
WeatherCall(location, time_stamp, answer) ==
    [latitude |-> location.latitude,
     longitude |-> location.longitude,
     time_stamp |-> time_stamp,
     quantity |-> TemperatureQuantity,
     output_name |-> TemperatureQuantity,
     answer |-> answer]

\* The second lookup made with the start location's coordinates.
WeatherLookupsStartTwice(l, time_stamp, answers) ==
    IF l.start_location.type # "Location"
    THEN [error |-> "AttributeError", calls |-> <<>>]
    ELSE
      LET first == WeatherCall(l.start_location, time_stamp, answers[1])
          second == WeatherCall(l.start_location, time_stamp, answers[2])
      IN IF ~answers[1].ok
         THEN [error |-> WeatherFailure, calls |-> <<first>>]
         ELSE IF ~answers[2].ok
         THEN [error |-> WeatherFailure, calls |-> <<first, second>>]
         ELSE [error |-> "", calls |-> <<first, second>>]

\* The two lookups in the order of the code, each read of .latitude failing
\* on an object that has none and each failed lookup ending the invocation.
WeatherLookups(l, time_stamp, answers) ==
    IF l.start_location.type # "Location"
    THEN [error |-> "AttributeError", calls |-> <<>>]
    ELSE
      LET first == WeatherCall(l.start_location, time_stamp, answers[1])
      IN IF ~answers[1].ok
         THEN [error |-> WeatherFailure, calls |-> <<first>>]
         ELSE IF l.end_location.type # "Location"
         THEN [error |-> "AttributeError", calls |-> <<first>>]
         ELSE
           LET second == WeatherCall(l.end_location, time_stamp, answers[2])
           IN IF ~answers[2].ok
              THEN [error |-> WeatherFailure,
                    calls |-> <<first, second>>]
              ELSE [error |-> "", calls |-> <<first, second>>]

\* The product floored at zero.
ElectricityUseClamped(distance, base_consumption, temperature_sum, weighted_road_factor, hour_in_day_factor) ==
    LET num == distance * base_consumption * temperature_sum
               * weighted_road_factor * hour_in_day_factor
    IN [num |-> IF num < 0 THEN 0 ELSE num, den |-> 2]

\* leg.distance * vehicle.base_consumption * temperature_factor_leg
\*     * weighted_road_factor * hour_in_day_factor
\* with temperature_factor_leg = temperature_sum / 2, as a fraction num/den.
ElectricityUse(distance, base_consumption, temperature_sum, weighted_road_factor, hour_in_day_factor) ==
    [num |-> distance * base_consumption * temperature_sum
             * weighted_road_factor * hour_in_day_factor,
     den |-> 2]

NoResult == [num |-> 0, den |-> 1]

NoCall ==
    [status |-> "not called", error |-> "", result |-> NoResult,
     leg |-> NoObject, vehicle |-> NoObject, time_stamp |-> 0]

\* The outcome of Leg.electricity_use_kWh(l, time_stamp, v, file) when the
\* weather module gives `answers` to the lookups it receives: what is
\* returned or raised, and the lookups made.
electricity_use_kWh(l, time_stamp, v, p, answers) ==
    LET road_types == p.transport_factors.road_types
        weighted_road_factor == WeightedRoadFactor(l, v, road_types)
        hour_in_day_index == HourOf(time_stamp)
        failed(error, calls) ==
            [outcome |-> [status |-> "raised", error |-> error,
                          result |-> NoResult, leg |-> l, vehicle |-> v,
                          time_stamp |-> time_stamp],
             calls |-> calls]
    IN IF weighted_road_factor.error # ""
       THEN failed(weighted_road_factor.error, <<>>)
       ELSE IF hour_in_day_index + 1 > Len(l.hour_in_day_factors)
       THEN failed("IndexError", <<>>)
       ELSE
         LET lookups == WeatherLookups(l, time_stamp, answers)
         IN IF lookups.error # ""
            THEN failed(lookups.error, lookups.calls)
            ELSE [outcome |->
                    [status |-> "returned", error |-> "",
                     result |->
                        ElectricityUse(
                            l.distance, v.base_consumption,
                            lookups.calls[1].answer.value
                                + lookups.calls[2].answer.value,
                            weighted_road_factor.value,
                            l.hour_in_day_factors[hour_in_day_index + 1]),
                     leg |-> l, vehicle |-> v, time_stamp |-> time_stamp],
                  calls |-> lookups.calls]


----------------------------------------------------------------------------
(* The parameters files of the model *)

DateTimeFields(years, months, days, hours, minutes) ==
    [year : years, month : months, day : days, hour : hours,
     minute : minutes]

\* Run starts and ends the calendar accepts: around the turn of the year and
\* of a leap year, minutes, hours, days and a month apart.
CalendarDateTimes ==
    DateTimeFields(RunYears, {1, 12}, {1, 31}, {0, 1, 23}, {0, 5})

\* Run starts and ends with one field out of its range.
OutOfRangeDateTimes ==
    {[year |-> 2023, month |-> 13, day |-> 1, hour |-> 0, minute |-> 0],
     [year |-> 2023, month |-> 2, day |-> 29, hour |-> 0, minute |-> 0],
     [year |-> 2024, month |-> 1, day |-> 1, hour |-> 24, minute |-> 0],
     [year |-> 2024, month |-> 1, day |-> 1, hour |-> 0, minute |-> 60]}

FrequencySizes == {-1, 0, 1, 2, 3}

FrequencyTypes == {"min", "H", "D", "fortnight"}

TimeSections ==
    [SECONDS_PER_HOUR : {1800, 3600}, first_hour_number : {-1, 0, 1}]

LocationSection(names) ==
    [i \in 1..Len(names) |->
        [name |-> names[i], connectivity |-> 1, charging_power |-> 11,
         latitude |-> 50 + i, longitude |-> 3 + i]]

LocationSections ==
    {LocationSection(<<"home">>), LocationSection(<<"home", "work">>)}

\* The number of instants a regular range from start towards end holds.
GridLength(run) ==
    IF /\ ValidDateTime(run.start)
       /\ ValidDateTime(run.end)
       /\ run.frequency.type \in FrequencyAliases
       /\ run.frequency.size # 0
    THEN Abs(DateTime(run.end) - DateTime(run.start))
            \div Abs(run.frequency.size * AliasSeconds(run.frequency.type))
         + 1
    ELSE 0

\* Runs that yield a grid, of at most MaxGrid instants.
GridRuns ==
    {run \in [start : CalendarDateTimes, end : CalendarDateTimes,
              frequency : [size : FrequencySizes, type : FrequencyTypes]] :
        GridLength(run) \in 1..MaxGrid}

\* The date-times out of range, and two the calendar accepts.
EdgeDateTimes ==
    OutOfRangeDateTimes
    \cup {dt \in CalendarDateTimes :
            dt.year = 2023 /\ dt.month = 1 /\ dt.day = 1 /\ dt.minute = 0
            /\ dt.hour \in {0, 1}}

\* Runs with a date-time field out of range, a frequency size of zero or an
\* unknown frequency unit.
RejectedRuns ==
    {run \in [start : EdgeDateTimes, end : EdgeDateTimes,
              frequency : [size : FrequencySizes, type : FrequencyTypes]] :
        GridLength(run) = 0}

RunSections == GridRuns \cup RejectedRuns

RoadTypeLists == {<<"highway">>, <<"highway", "urban">>}

RoadTypeMixes ==
    {[road_type \in {"highway"} |-> 1],
     [road_type \in {"highway", "urban"} |->
        IF road_type = "highway" THEN 7 ELSE 3],
     [road_type \in {"highway", "track"} |->
        IF road_type = "highway" THEN 1 ELSE 2]}

RoadFactors ==
    {[road_type \in {"highway"} |-> 2],
     [road_type \in {"highway", "urban"} |->
        IF road_type = "highway" THEN 2 ELSE 5]}

HourInDayFactors ==
    {[hour \in 1..24 |-> 1],
     [hour \in 1..24 |-> hour + 1],
     [hour \in 1..12 |-> 1]}

LegSections ==
    [commute :
        [distance : {100, 200},
         duration : {1},
         hour_in_day_factors : HourInDayFactors,
         locations : [start : {"home"}, end : {"work", "depot"}],
         road_type_mix : RoadTypeMixes]]

VehicleSections ==
    [car :
        [base_consumption : {2, 3},
         battery_capacity : {60},
         solar_panel_size_kWp : {0},
         road_factors : RoadFactors]]

DefaultRun ==
    [start |-> [year |-> 2023, month |-> 1, day |-> 1, hour |-> 0,
                minute |-> 0],
     end |-> [year |-> 2023, month |-> 1, day |-> 1, hour |-> 1,
              minute |-> 0],
     frequency |-> [size |-> 1, type |-> "H"]]

DefaultTime == [SECONDS_PER_HOUR |-> 3600, first_hour_number |-> 1]

DefaultLegs == CHOOSE legs \in LegSections : TRUE

DefaultVehicles == CHOOSE vehicles \in VehicleSections : TRUE

DefaultTransportFactors == [road_types |-> <<"highway">>]

----------------------------------------------------------------------------
(* The time grid: its states and steps *)

InitTime ==
    /\ \E run \in RunSections, time \in TimeSections,
          location_section \in LocationSections :
          parameters = [run |-> run, time |-> time,
                        locations |-> location_section,
                        legs |-> DefaultLegs,
                        vehicles |-> DefaultVehicles,
                        transport_factors |-> DefaultTransportFactors]
    /\ time_range = NotCalled
    /\ time_stamped_dataframe = NoTable
    /\ locations = NoLocations
    /\ vehicle = NoObject
    /\ leg = NoObject
    /\ last_call = NoCall
    /\ weather_calls = <<>>

Call_get_time_range ==
    /\ time_range' = get_time_range(parameters)
    /\ UNCHANGED <<parameters, time_stamped_dataframe, leg_vars>>

Call_get_time_stamped_dataframe ==
    /\ time_stamped_dataframe' = get_time_stamped_dataframe(parameters)
    /\ UNCHANGED <<parameters, time_range, leg_vars>>

NextTime ==
    \/ Call_get_time_range
    \/ Call_get_time_stamped_dataframe

SpecTime == InitTime /\ [][NextTime]_vars


----------------------------------------------------------------------------
(* The leg energy model: its states and steps *)

\* The time stamps electricity_use_kWh is asked about.
TimeStamps == {StartOfYear(EpochYear) + hour * 60 * 60 : hour \in {0, 7, 23}}

\* What the weather module answers to one lookup: a number, or a failure.
WeatherAnswers ==
    {[ok |-> TRUE, value |-> value] : value \in {-3, 2}}
    \cup {[ok |-> FALSE, value |-> 0]}

\* What a caller may hold for a location field of the leg it passes: the
\* value the constructor stored, or the Location object built for that name.
LocationReferences(field) ==
    {field} \cup {locations[name] : name \in DOMAIN locations \cap {field.value}}

\* The legs a caller may pass to electricity_use_kWh.
LegArguments ==
    {[leg EXCEPT !.start_location = start_location,
                 !.end_location = end_location] :
        start_location \in LocationReferences(leg.start_location),
        end_location \in LocationReferences(leg.end_location)}

InitLeg ==
    /\ \E legs \in LegSections, vehicles \in VehicleSections,
          road_types \in RoadTypeLists :
          parameters = [run |-> DefaultRun, time |-> DefaultTime,
                        locations |-> LocationSection(<<"home", "work">>),
                        legs |-> legs,
                        vehicles |-> vehicles,
                        transport_factors |-> [road_types |-> road_types]]
    /\ time_range = NotCalled
    /\ time_stamped_dataframe = NoTable
    /\ locations = NoLocations
    /\ vehicle = NoObject
    /\ leg = NoObject
    /\ last_call = NoCall
    /\ weather_calls = <<>>

Location_init ==
    \E name \in {"home", "work"} :
        /\ HasLocation(parameters, name)
        /\ locations' =
              [n \in DOMAIN locations \cup {name} |->
                  IF n = name THEN Location(name, parameters)
                  ELSE locations[n]]
        /\ UNCHANGED <<parameters, time_vars, vehicle, leg, last_call,
                       weather_calls>>

Vehicle_init ==
    /\ vehicle' = Vehicle("car", parameters)
    /\ UNCHANGED <<parameters, time_vars, locations, leg, last_call,
                   weather_calls>>

Leg_init ==
    /\ leg' = Leg("commute", parameters)
    /\ UNCHANGED <<parameters, time_vars, locations, vehicle, last_call,
                   weather_calls>>

\* An invocation that rewrites the leg's road_type_mix to the declared road
\* types before it sums.
Call_electricity_use_kWh_rewriting_mix ==
    /\ leg.type = "Leg"
    /\ vehicle.type = "Vehicle"
    /\ \E l \in LegArguments, time_stamp \in TimeStamps,
          answers \in WeatherAnswers \X WeatherAnswers :
          LET call == electricity_use_kWh(l, time_stamp, vehicle,
                                          parameters, answers)
              road_types == parameters.transport_factors.road_types
              declared == {road_types[k] : k \in 1..Len(road_types)}
          IN /\ last_call' = call.outcome
             /\ weather_calls' = call.calls
             /\ leg' = [leg EXCEPT !.road_type_mix =
                          [road_type \in DOMAIN leg.road_type_mix
                                         \cap declared |->
                              leg.road_type_mix[road_type]]]
    /\ UNCHANGED <<parameters, time_vars, locations, vehicle>>

\* Leg.electricity_use_kWh(leg, time_stamp, vehicle, parameters_file_name):
\* it assigns to no attribute of its arguments and writes no file.
Call_electricity_use_kWh ==
    /\ leg.type = "Leg"
    /\ vehicle.type = "Vehicle"
    /\ \E l \in LegArguments, time_stamp \in TimeStamps,
          answers \in WeatherAnswers \X WeatherAnswers :
          LET call == electricity_use_kWh(l, time_stamp, vehicle,
                                          parameters, answers)
          IN /\ last_call' = call.outcome
             /\ weather_calls' = call.calls
    /\ UNCHANGED <<parameters, time_vars, locations, vehicle, leg>>

NextLeg ==
    \/ Location_init
    \/ Vehicle_init
    \/ Leg_init
    \/ Call_electricity_use_kWh

SpecLeg == InitLeg /\ [][NextLeg]_vars

----------------------------------------------------------------------------
(* Properties of the time grid *)

RunStart == DateTime(parameters.run.start)
RunEnd == DateTime(parameters.run.end)
RunStep ==
    parameters.run.frequency.size
        * AliasSeconds(parameters.run.frequency.type)
Grid == time_range.run_range
HourNumbers == time_range.run_hour_numbers

\* Seconds from 1 January 00:00 of t's own calendar year to t.
SecondsIntoYear(t) == t - StartOfYear(YearOf(t))

\* The grid enters a new calendar year at position i.
EntersNewYear(i) == i > 1 /\ YearOf(Grid[i]) > YearOf(Grid[i - 1])

\* C1: for a positive frequency step the grid returned by get_time_range is
\* exactly the instants start + k*step (k = 0, 1, ...) strictly before end,
\* in increasing order; it is empty when end <= start and never holds end.
C1_GridIsHalfOpen ==
    (time_range.status = "returned" /\ parameters.run.frequency.size > 0) =>
        /\ \A i \in 1..Len(Grid) :
              Grid[i] = RunStart + (i - 1) * RunStep /\ Grid[i] < RunEnd
        /\ \A k \in 0..MaxGrid :
              RunStart + k * RunStep < RunEnd => k + 1 <= Len(Grid)
        /\ \A i \in 1..Len(Grid) : Grid[i] # RunEnd
        /\ (RunEnd <= RunStart => Grid = <<>>)

\* C2 (as stated): every hour number is first_hour_number + floor(seconds
\* into the time stamp's own year / SECONDS_PER_HOUR), the two lists have the
\* same length, and the first time stamp of each new calendar year crossed
\* by the grid has hour number first_hour_number.
C2_HourNumberResetsAtEveryNewYear ==
    time_range.status = "returned" =>
        /\ Len(HourNumbers) = Len(Grid)
        /\ \A i \in 1..Len(Grid) :
              HourNumbers[i] =
                  parameters.time.first_hour_number
                  + (SecondsIntoYear(Grid[i])
                        \div parameters.time.SECONDS_PER_HOUR)
        /\ \A i \in 1..Len(Grid) :
              EntersNewYear(i) =>
                  HourNumbers[i] = parameters.time.first_hour_number

\* C2 (amended): every hour number is first_hour_number + floor(seconds into
\* the time stamp's own year / SECONDS_PER_HOUR), the two lists have the same
\* length, and the first time stamp of a new calendar year has hour number
\* first_hour_number when it lies less than SECONDS_PER_HOUR seconds after
\* 1 January 00:00 of that year.
C2_HourNumberCountsFromOwnYear ==
    time_range.status = "returned" =>
        /\ Len(HourNumbers) = Len(Grid)
        /\ \A i \in 1..Len(Grid) :
              HourNumbers[i] =
                  parameters.time.first_hour_number
                  + (SecondsIntoYear(Grid[i])
                        \div parameters.time.SECONDS_PER_HOUR)
        /\ \A i \in 1..Len(Grid) :
              (/\ EntersNewYear(i)
               /\ SecondsIntoYear(Grid[i]) < parameters.time.SECONDS_PER_HOUR)
                  => HourNumbers[i] = parameters.time.first_hour_number

\* A grid of three instants or more that enters a new calendar year within
\* its first hour, after an instant late in the year before.
C2_Witness ==
    /\ time_range.status = "returned"
    /\ Len(Grid) >= 3
    /\ \E i \in 1..Len(Grid) :
          /\ EntersNewYear(i)
          /\ SecondsIntoYear(Grid[i]) < parameters.time.SECONDS_PER_HOUR
          /\ HourNumbers[i] = parameters.time.first_hour_number
          /\ HourNumbers[i - 1] > 8000

\* C8: get_time_range fails, and returns no grid, whenever the frequency size
\* is zero or negative, the frequency unit is unknown or a date-time field is
\* out of its calendar range (stated without the class of the error, which
\* the claim gives as ConfigurationError).
C8_InvalidRunIsRejected ==
    (/\ time_range.status # "not called"
     /\ \/ parameters.run.frequency.size <= 0
        \/ parameters.run.frequency.type \notin FrequencyAliases
        \/ ~ValidDateTime(parameters.run.start)
        \/ ~ValidDateTime(parameters.run.end))
        => time_range.status = "raised"


Table == time_stamped_dataframe

IsZeroPadded(characters, digits) ==
    /\ Len(characters) >= Len(digits)
    /\ \A k \in 1..Len(characters) :
          characters[k] =
              IF k <= Len(characters) - Len(digits) THEN "0"
              ELSE digits[k - (Len(characters) - Len(digits))]

\* The label is 't', then the sign of a negative number, then the digits of
\* the number padded with zeros to four digits or more (no more than needed).
LabelHasFourDigits(label, hour_number) ==
    LET digits == Digits(Abs(hour_number))
        sign == IF hour_number < 0 THEN 1 ELSE 0
        padded == SubSeq(label, 2 + sign, Len(label))
    IN /\ Len(label) >= 1 + sign
       /\ label[1] = "t"
       /\ (hour_number < 0 => label[2] = "-")
       /\ IsZeroPadded(padded, digits)
       /\ Len(padded) = (IF Len(digits) > 4 THEN Len(digits) ELSE 4)

\* The label is 't', then the number written in four characters or more: the
\* sign of a negative number, zeros, and its digits, the zeros filling what
\* the sign and the digits leave of the four characters.
LabelHasWidthFour(label, hour_number) ==
    LET digits == Digits(Abs(hour_number))
        sign == IF hour_number < 0 THEN 1 ELSE 0
        padded == SubSeq(label, 2 + sign, Len(label))
    IN /\ Len(label) >= 1 + sign
       /\ label[1] = "t"
       /\ (hour_number < 0 => label[2] = "-")
       /\ IsZeroPadded(padded, digits)
       /\ sign + Len(padded) =
             (IF sign + Len(digits) > 4 THEN sign + Len(digits) ELSE 4)

\* The rows, the index, the hour-number column and the location columns of
\* the table, against the grid get_time_range returned for the same file.
TableFollowsGrid ==
    /\ Table.index = Grid
    /\ Table.index_name = "Timestamp"
    /\ Table.columns =
          <<"Hour Number", "SPINE_hour_number">> \o LocationNames(parameters)
    /\ DOMAIN Table.data = {Table.columns[k] : k \in 1..Len(Table.columns)}
    /\ \A c \in DOMAIN Table.data : Len(Table.data[c]) = Len(Grid)
    /\ Table.data["Hour Number"] = HourNumbers
    /\ \A k \in 1..Len(parameters.locations) :
          \A i \in 1..Len(Grid) :
              Table.data[parameters.locations[k].name][i] = "NaN"

BothReturned ==
    time_range.status = "returned" /\ Table.status = "returned"

\* C9 (as stated): the table has one row per time stamp of the grid, in grid
\* order and indexed by it; each row carries its hour number, the label 't'
\* followed by the hour number zero-padded to at least 4 digits, and one
\* column per declared location, holding the missing-value sentinel.
C9_LabelsHaveFourDigits ==
    BothReturned =>
        /\ TableFollowsGrid
        /\ \A i \in 1..Len(Grid) :
              LabelHasFourDigits(Table.data["SPINE_hour_number"][i],
                                 HourNumbers[i])

\* C9 (amended): as stated, except that the label is 't' followed by the hour
\* number zero-padded to a width of at least 4 characters, the minus sign of
\* a negative hour number counting as one of them.
C9_LabelsHaveWidthFour ==
    BothReturned =>
        /\ TableFollowsGrid
        /\ \A i \in 1..Len(Grid) :
              LabelHasWidthFour(Table.data["SPINE_hour_number"][i],
                                HourNumbers[i])

\* A table of two rows or more and two location columns, with a negative
\* hour number and one of a single digit among its rows.
C9_Witness ==
    /\ BothReturned
    /\ Len(Grid) >= 2
    /\ Len(parameters.locations) = 2
    /\ \E i, j \in 1..Len(Grid) :
          /\ HourNumbers[i] < 0
          /\ Table.data["SPINE_hour_number"][i] = <<"t", "-", "0", "0", "1">>
          /\ HourNumbers[j] \in 0..9
    /\ Table.data["work"][1] = "NaN"


----------------------------------------------------------------------------
(* Properties of the leg energy model *)

PassedLeg == last_call.leg
PassedVehicle == last_call.vehicle
DeclaredRoadTypes == parameters.transport_factors.road_types

\* The sum over the first k declared road types of mix * factor.
RECURSIVE RoadSum(_)
RoadSum(k) ==
    IF k = 0 THEN 0
    ELSE RoadSum(k - 1)
         + PassedLeg.road_type_mix[DeclaredRoadTypes[k]]
           * PassedVehicle.road_factors[DeclaredRoadTypes[k]]

\* Some declared road type has no entry in the vehicle's road_factors or in
\* the leg's road_type_mix.
DeclaredRoadTypeMissing ==
    \E k \in 1..Len(DeclaredRoadTypes) :
        \/ DeclaredRoadTypes[k] \notin DOMAIN PassedLeg.road_type_mix
        \/ DeclaredRoadTypes[k] \notin DOMAIN PassedVehicle.road_factors

\* C3: a returned result is distance * base_consumption * T * W * H, with T
\* the mean of the two weather values, W the sum over the declared road
\* types of mix * factor and H the factor of the time stamp's clock hour;
\* nothing is clamped (2 * result = distance * base * (t1 + t2) * W * H).
C3_ResultIsTheProduct ==
    last_call.status = "returned" =>
        /\ Len(weather_calls) = 2
        /\ 2 * last_call.result.num =
              last_call.result.den
              * PassedLeg.distance
              * PassedVehicle.base_consumption
              * (weather_calls[1].answer.value
                    + weather_calls[2].answer.value)
              * RoadSum(Len(DeclaredRoadTypes))
              * PassedLeg.hour_in_day_factors[
                    ((last_call.time_stamp % SecondsPerDay) \div 3600) + 1]

\* A returned negative result, for two declared road types, a mean that is
\* not a whole number and an hour factor other than one.
C3_Witness ==
    /\ last_call.status = "returned"
    /\ last_call.result.num < 0
    /\ Len(DeclaredRoadTypes) = 2
    /\ (weather_calls[1].answer.value + weather_calls[2].answer.value) % 2 = 1
    /\ last_call.time_stamp % SecondsPerDay = 23 * 3600
    /\ PassedLeg.hour_in_day_factors[24] = 25

\* C4 (as stated): when a declared road type has no entry in
\* vehicle.road_factors or in leg.road_type_mix, electricity_use_kWh raises
\* ConfigurationError and returns no number.
C4_MissingRoadTypeRaisesConfigurationError ==
    (last_call.status # "not called" /\ DeclaredRoadTypeMissing) =>
        /\ last_call.status = "raised"
        /\ last_call.error = "ConfigurationError"
        /\ last_call.result = NoResult

\* C4 (amended): when a declared road type has no entry in
\* vehicle.road_factors or in leg.road_type_mix, electricity_use_kWh raises
\* KeyError and returns no number (and has made no weather lookup yet).
C4_MissingRoadTypeRaisesKeyError ==
    (last_call.status # "not called" /\ DeclaredRoadTypeMissing) =>
        /\ last_call.status = "raised"
        /\ last_call.error = "KeyError"
        /\ last_call.result = NoResult
        /\ weather_calls = <<>>

\* An invocation for a vehicle without a factor for a declared road type the
\* leg has in its mix, with both locations resolved and the clock hour in
\* range: only the missing factor stops it.
C4_Witness ==
    /\ last_call.status = "raised"
    /\ last_call.error = "KeyError"
    /\ \E k \in 1..Len(DeclaredRoadTypes) :
          /\ DeclaredRoadTypes[k] \in DOMAIN PassedLeg.road_type_mix
          /\ DeclaredRoadTypes[k] \notin DOMAIN PassedVehicle.road_factors
    /\ PassedLeg.start_location.type = "Location"
    /\ PassedLeg.end_location.type = "Location"
    /\ Len(PassedLeg.hour_in_day_factors) = 24

\* C5: a Leg built by its constructor has start_location and end_location
\* that are the Location records of the names in its locations.start and
\* locations.end entries, and no Leg is produced when a name is not in the
\* locations section.
C5_LegHoldsLocationRecords ==
    leg.type = "Leg" =>
        LET names == parameters.legs[leg.name].locations
        IN /\ HasLocation(parameters, names.start)
           /\ HasLocation(parameters, names.end)
           /\ leg.start_location = Location(names.start, parameters)
           /\ leg.end_location = Location(names.end, parameters)

\* C6: a successful invocation has made exactly two weather lookups, the
\* first with the start location's latitude and longitude and the second
\* with the end location's, both with the time stamp given and the quantity
\* 'Temperature at 2 meters (°C)'; a lookup that fails is the last one made
\* and the invocation raises its error and returns no number.
C6_TwoLookupsAndFailuresPropagate ==
    /\ last_call.status = "returned" =>
          /\ Len(weather_calls) = 2
          /\ PassedLeg.start_location.type = "Location"
          /\ PassedLeg.end_location.type = "Location"
          /\ weather_calls[1] =
                [latitude |-> PassedLeg.start_location.latitude,
                 longitude |-> PassedLeg.start_location.longitude,
                 time_stamp |-> last_call.time_stamp,
                 quantity |-> "Temperature at 2 meters (°C)",
                 output_name |-> "Temperature at 2 meters (°C)",
                 answer |-> weather_calls[1].answer]
          /\ weather_calls[2] =
                [latitude |-> PassedLeg.end_location.latitude,
                 longitude |-> PassedLeg.end_location.longitude,
                 time_stamp |-> last_call.time_stamp,
                 quantity |-> "Temperature at 2 meters (°C)",
                 output_name |-> "Temperature at 2 meters (°C)",
                 answer |-> weather_calls[2].answer]
          /\ weather_calls[1].answer.ok
          /\ weather_calls[2].answer.ok
    /\ \A k \in 1..Len(weather_calls) :
          ~weather_calls[k].answer.ok =>
              /\ k = Len(weather_calls)
              /\ last_call.status = "raised"
              /\ last_call.error = WeatherFailure
              /\ last_call.result = NoResult
    /\ Len(weather_calls) <= 2

\* A successful invocation for a leg between two different locations.
C6_Witness ==
    /\ last_call.status = "returned"
    /\ Len(weather_calls) = 2
    /\ PassedLeg.start_location.latitude # PassedLeg.end_location.latitude
    /\ PassedLeg.start_location.longitude # PassedLeg.end_location.longitude

\* C7: electricity_use_kWh returns no number for a leg whose road_type_mix
\* holds a road type that is not declared in transport_factors.road_types or
\* has no entry in the vehicle's road_factors.
C7_UndeclaredRoadTypeIsRejected ==
    last_call.status = "returned" =>
        \A road_type \in DOMAIN PassedLeg.road_type_mix :
            /\ \E k \in 1..Len(DeclaredRoadTypes) :
                  DeclaredRoadTypes[k] = road_type
            /\ road_type \in DOMAIN PassedVehicle.road_factors

\* The answers the weather module gave to the lookups of the last invocation.
AnswersGiven(calls) == [k \in 1..Len(calls) |-> calls[k].answer]

=============================================================================
